---- MODULE Spec2Model ----
(***************************************************************************)
(* Breathing-controlled arcade game: the game object (FlappyBirdGame,      *)
(* src/flappy_bird_game.py) and the breathing detector (BreathingDetector, *)
(* src/breathing_detector.py).                                             *)
(*                                                                         *)
(* Numbers.  The code computes in floats.  The game's quantities are all   *)
(* multiples of 0.5 (GRAVITY = 0.5 is the finest step), so lengths and     *)
(* velocities of the game are integers counting 1/Scale of a pixel.        *)
(* Time is counted in frames of 1/60 s (frame_time of _game_loop), so that *)
(* 0.3 s is 18 frames, 0.05 s is 3 frames and 1.0 s is 60 frames.          *)
(* The detector's volumes are integers counting tenths, its sensitivity    *)
(* counts tenths, and the baseline and thresholds, which are products of   *)
(* the two by 1.2, 0.8, 0.3 and 0.4, count thousandths exactly.  The mean  *)
(* and the standard deviation of the samples are rounded down to a tenth.  *)
(***************************************************************************)
EXTENDS Integers, Sequences, FiniteSets, TLC

VARIABLES
    \* ---- FlappyBirdGame fields
    bird,                    \* Bird: [x, y, velocity_y, radius]
    pipes,                   \* List[Pipe]: sequence of [x, gap_y, passed]
    GRAVITY,
    PIPE_SPEED,
    is_running,
    is_paused,
    score,
    high_score,
    game_over,
    current_breathing,
    breathing_force_active,
    breathing_force_timer,
    game_thread,             \* number of loop threads started so far (0: None)
    loop_alive,              \* the loop thread game_thread is running _game_loop
    \* ---- BreathingDetector fields
    sensitivity,             \* in tenths
    breathing_state,
    last_state_change,
    baseline_volume,         \* in thousandths
    inhale_threshold,        \* in thousandths
    exhale_threshold,        \* in thousandths
    calibration_samples,     \* the list as a bag: value (in tenths) -> count
    is_calibrated,
    smoothed_volume,         \* the smoothed volume of the last frame, in tenths
    events,                  \* the calls of self.callback so far, oldest first
    volumes,                 \* _auto_calibrate's copy of the buffer while the audio
                             \* thread is inside it, in a sequence of one; else <<>>
    \* ---- the threads of a game object
    loop_pc,                 \* where the loop thread is in _game_loop
    current_time,            \* current_time of _game_loop
    last_time,               \* last_time of _game_loop
    stop_pc,                 \* where the caller of stop_game is
    join_deadline,           \* when its join(timeout=1.0) gives up
    pending_breath,          \* the event the handler is about to hand to the game
    lock,                    \* self.lock: "free" or the thread that holds it
    pc,                      \* where each thread is with respect to the lock
    snapshot,                \* the last return of get_game_state, in a sequence
    \* ---- the audio device of the server's detector
    detector,                \* self.breathing_detector of the server: "none" or "some"
    det_running,             \* BreathingDetector.is_running
    stream,                  \* self.stream: "none", "active" or "closed"
    audio,                   \* self.audio, the PyAudio object: "ready" or "terminated"
    audio_log,               \* the calls made to the stream and to self.audio to
                             \* tear this detector down, oldest first
    \* ---- BreathingFlappyBirdServer and the game objects it has created
    game,                    \* self.game: the index of the object in games, 0: None
    games,                   \* the FlappyBirdGame objects, in the order of creation
    requests,                \* the request threads of the server: where each one
                             \* is in its handler, and the object it works on
    filtered_volume,         \* _audio_callback between its read of is_calibrated
                             \* (line 90) and _detect_breathing (line 91): the
                             \* volume of the frame, <<>> outside of it
    \* ---- the environment
    now,                     \* time.time(), in frames since construction
    calls,                   \* calls made to the game so far in the run
    last_op,                 \* the operation that made the last step
    prev_op,                 \* the operation that made the step before it
    last_input               \* time of the last breathing input of a session, -1: none

gameVars == <<bird, pipes, GRAVITY, PIPE_SPEED, is_running, is_paused, score,
              high_score, game_over, current_breathing, breathing_force_active,
              breathing_force_timer, game_thread, loop_alive>>
detVars == <<sensitivity, breathing_state, last_state_change, baseline_volume,
             inhale_threshold, exhale_threshold, calibration_samples,
             is_calibrated, smoothed_volume, events, volumes>>
threadVars == <<loop_pc, current_time, last_time, stop_pc, join_deadline,
               pending_breath>>
lockVars == <<lock, pc, snapshot>>
audioVars == <<detector, det_running, stream, audio, audio_log>>
serverVars == <<game, games, requests>>
envVars == <<now, calls, last_op, prev_op, last_input>>
vars == <<bird, pipes, GRAVITY, PIPE_SPEED, is_running, is_paused, score,
          high_score, game_over, current_breathing, breathing_force_active,
          breathing_force_timer, game_thread, loop_alive,
          sensitivity, breathing_state, last_state_change, baseline_volume,
          inhale_threshold, exhale_threshold, calibration_samples,
          is_calibrated, smoothed_volume, events, volumes,
          loop_pc, current_time, last_time, stop_pc, join_deadline,
          pending_breath, lock, pc, snapshot,
          detector, det_running, stream, audio, audio_log,
          game, games, requests, filtered_volume,
          now, calls, last_op, prev_op, last_input>>

----------------------------------------------------------------------------
(* Fixed point and bounds *)

Scale == 2

MaxTime == 6           \* frames a run of Spec may last
MaxCalls == 3          \* calls made to the game in a run of Spec
MaxRequests == 2       \* requests the server handles at the same time
MaxThreads == 2        \* loop threads a run may start
MaxSessionTime == 145  \* frames a session of SpecSession may last
InputEvery == 8        \* SpecSession: clients call every InputEvery frames at most

Max(a, b) == IF a >= b THEN a ELSE b
Min(a, b) == IF a <= b THEN a ELSE b

----------------------------------------------------------------------------
(* FlappyBirdGame.__init__ and the dataclasses *)

GAME_WIDTH == 800 * Scale
GAME_HEIGHT == 600 * Scale
BASE_GRAVITY == 1                       \* 0.5
BREATHING_FORCE == -8 * Scale
EXHALE_FORCE == 4 * Scale
MAX_VELOCITY == 10 * Scale
BASE_PIPE_SPEED == 3 * Scale
PIPE_SPAWN_DISTANCE == 300 * Scale
BREATHING_FORCE_DURATION == 18          \* 0.3 s
FRAME_TIME == 1                         \* 1.0 / target_fps

BIRD_X == 100 * Scale
BIRD_Y == 250 * Scale
BIRD_RADIUS == 20 * Scale
GAP_HEIGHT == 120 * Scale
PIPE_WIDTH == 50 * Scale

NewBird == [x |-> BIRD_X, y |-> BIRD_Y, velocity_y |-> 0, radius |-> BIRD_RADIUS]

NewPipe(x, gap_y) == [x |-> x, gap_y |-> gap_y, passed |-> FALSE]

\* random.randint(100, GAME_HEIGHT - 200): the values a run draws from
GapChoices == {150 * Scale, 350 * Scale}

\* the gap of a pipe that the body does not reach while it is followed
FarGap == {CHOOSE g \in GapChoices : TRUE}

\* difficulty_level values passed to adjust_difficulty
DifficultyLevels == {1, 2}

BreathTypes == {"inhale", "exhale"}

----------------------------------------------------------------------------
(* Pure parts of the tick: _update_bird_physics, _update_pipes,            *)
(* _check_collisions, _update_score, _game_over                            *)

\* lines 154, 163-164: gravity, then the velocity limit
\* gravity without the velocity limit
VelocityUnlimited(b, g) == b.velocity_y + g

VelocityAfterGravity(b, g) ==
    Max(-MAX_VELOCITY, Min(MAX_VELOCITY, b.velocity_y + g))

\* line 173: the moved body is below the bottom boundary
HitsFloor(b, g) ==
    b.y + VelocityAfterGravity(b, g) > GAME_HEIGHT - b.radius

\* lines 154-175: the body after gravity, limit, move and the screen clamp
BirdAfterPhysics(b, g) ==
    LET v == VelocityAfterGravity(b, g)
        y == b.y + v
    IN  IF y < b.radius
        THEN [b EXCEPT !.y = b.radius, !.velocity_y = 0]
        ELSE IF y > GAME_HEIGHT - b.radius
             THEN [b EXCEPT !.y = GAME_HEIGHT - b.radius, !.velocity_y = 0]
             ELSE [b EXCEPT !.y = y, !.velocity_y = v]

\* lines 157-160: the impulse has run out at time t
ForceExpired(active, timer, t) ==
    active /\ t - timer > BREATHING_FORCE_DURATION

\* a pipe that is discarded as soon as its left edge leaves the screen
OffScreenAtLeftEdge(p) == p.x < 0

\* line 185: the pipe is off screen
OffScreen(p) == p.x + PIPE_WIDTH < 0

\* lines 181-186: every pipe moved left, those off screen removed
MovedPipes(ps, speed) ==
    LET moved == [i \in 1..Len(ps) |-> [ps[i] EXCEPT !.x = @ - speed]]
    IN  SelectSeq(moved, LAMBDA p : ~OffScreen(p))

\* line 189: a new pipe is due
SpawnDue(ps) ==
    ps = <<>> \/ ps[Len(ps)].x < GAME_WIDTH - PIPE_SPAWN_DISTANCE

\* lines 178-190 and 198-210: _update_pipes, gap the random gap of a new pipe
PipesAfterUpdate(ps, speed, gap) ==
    LET kept == MovedPipes(ps, speed)
    IN  IF SpawnDue(kept) THEN Append(kept, NewPipe(GAME_WIDTH, gap)) ELSE kept

\* line 224: the body's bounding box overlaps the pipe horizontally
Aligned(b, p) ==
    b.x + b.radius > p.x /\ b.x - b.radius < p.x + PIPE_WIDTH

\* line 229: the body's vertical extent is not inside the gap
OutsideGap(b, p) ==
    b.y - b.radius < p.gap_y \/ b.y + b.radius > p.gap_y + GAP_HEIGHT

\* lines 212-231: _check_collisions calls _game_over
Collides(b, ps) ==
    \E i \in 1..Len(ps) : Aligned(b, ps[i]) /\ OutsideGap(b, ps[i])

\* line 236: the pipe is counted now
\* the crossing test without the passed flag
CrossedAgain(b, p) == p.x + PIPE_WIDTH < b.x

Crossed(b, p) == ~p.passed /\ p.x + PIPE_WIDTH < b.x

\* lines 233-238: _update_score, the pipes and the points gained
PipesAfterScore(b, ps) ==
    [i \in 1..Len(ps) |-> IF Crossed(b, ps[i]) THEN [ps[i] EXCEPT !.passed = TRUE]
                                               ELSE ps[i]]

ScoreGain(b, ps) == Cardinality({i \in 1..Len(ps) : Crossed(b, ps[i])})

\* lines 240-244: _game_over with the score s and high score h
HighScoreAfterGameOver(s, h) == IF s > h THEN s ELSE h

\* lines 192-196: _generate_initial_pipes with the three random gaps
InitialPipes(g1, g2, g3) ==
    << NewPipe(GAME_WIDTH, g1),
       NewPipe(GAME_WIDTH + PIPE_SPAWN_DISTANCE, g2),
       NewPipe(GAME_WIDTH + 2 * PIPE_SPAWN_DISTANCE, g3) >>

\* lines 100-112: the velocity after an impulse
\* impulses that add up
VelocityAdded(breath_type, v) ==
    IF breath_type = "inhale" THEN v + BREATHING_FORCE
    ELSE IF breath_type = "exhale" THEN v + EXHALE_FORCE
    ELSE v

VelocityAfterInput(breath_type, v) ==
    IF breath_type = "inhale" THEN Max(BREATHING_FORCE, v + BREATHING_FORCE)
    ELSE IF breath_type = "exhale" THEN Min(EXHALE_FORCE, v + EXHALE_FORCE)
    ELSE v

----------------------------------------------------------------------------
(* FlappyBirdGame: the operations *)

\* lines 80-90: reset_game (start_time is written and never read by the game)
ResetFields(g1, g2, g3) ==
    /\ bird' = NewBird
    /\ pipes' = InitialPipes(g1, g2, g3)
    /\ score' = 0
    /\ game_over' = FALSE
    /\ breathing_force_active' = FALSE
    /\ breathing_force_timer' = 0

reset_game ==
    \E g1 \in GapChoices, g2 \in GapChoices, g3 \in GapChoices :
        /\ ResetFields(g1, g2, g3)
        /\ UNCHANGED <<GRAVITY, PIPE_SPEED, is_running, is_paused, high_score,
                       current_breathing, game_thread, loop_alive>>

\* start_game without its early return
start_always(first, rest) ==
    /\ game_thread < MaxThreads
    /\ \E g1 \in first, g2 \in rest, g3 \in rest :
           ResetFields(g1, g2, g3)
    /\ is_running' = TRUE
    /\ game_thread' = game_thread + 1
    /\ loop_alive' = TRUE
    /\ UNCHANGED <<GRAVITY, PIPE_SPEED, is_paused, high_score,
                   current_breathing>>

\* lines 59-67: start_game, the gap of the first pipe of reset_game drawn
\* from first, the gaps of the second and the third from rest
start_with(first, rest) ==
    IF is_running
    THEN UNCHANGED gameVars
    ELSE /\ game_thread < MaxThreads
         /\ \E g1 \in first, g2 \in rest, g3 \in rest :
                ResetFields(g1, g2, g3)
         /\ is_running' = TRUE
         /\ game_thread' = game_thread + 1
         /\ loop_alive' = TRUE
         /\ UNCHANGED <<GRAVITY, PIPE_SPEED, is_paused, high_score,
                        current_breathing>>

start_game == start_with(GapChoices, GapChoices)

\* lines 69-73: stop_game; the loop thread sees the flag at its next
\* `while self.is_running` and ends, and join returns
stop_game ==
    /\ is_running' = FALSE
    /\ loop_alive' = FALSE
    /\ UNCHANGED <<bird, pipes, GRAVITY, PIPE_SPEED, is_paused, score, high_score,
                   game_over, current_breathing, breathing_force_active,
                   breathing_force_timer, game_thread>>

\* line 71: stop_game before its join
stop_flag ==
    /\ is_running' = FALSE
    /\ UNCHANGED <<bird, pipes, GRAVITY, PIPE_SPEED, is_paused, score, high_score,
                   game_over, current_breathing, breathing_force_active,
                   breathing_force_timer, game_thread, loop_alive>>

\* lines 75-78: pause_game
pause_game ==
    /\ is_paused' = ~is_paused
    /\ UNCHANGED <<bird, pipes, GRAVITY, PIPE_SPEED, is_running, score, high_score,
                   game_over, current_breathing, breathing_force_active,
                   breathing_force_timer, game_thread, loop_alive>>

\* lines 92-112: on_breathing_input
on_breathing_input(breath_type) ==
    IF game_over \/ is_paused
    THEN UNCHANGED gameVars
    ELSE /\ current_breathing' = breath_type
         /\ bird' = [bird EXCEPT !.velocity_y = VelocityAfterInput(breath_type, @)]
         /\ IF breath_type \in {"inhale", "exhale"}
            THEN /\ breathing_force_active' = TRUE
                 /\ breathing_force_timer' = now
            ELSE UNCHANGED <<breathing_force_active, breathing_force_timer>>
         /\ UNCHANGED <<pipes, GRAVITY, PIPE_SPEED, is_running, is_paused, score,
                        high_score, game_over, game_thread, loop_alive>>

\* a difficulty scaled from the current values
adjust_compounding(difficulty_level) ==
    /\ PIPE_SPEED' = PIPE_SPEED * difficulty_level
    /\ GRAVITY' = GRAVITY * difficulty_level
    /\ UNCHANGED <<bird, pipes, is_running, is_paused, score, high_score, game_over,
                   current_breathing, breathing_force_active, breathing_force_timer,
                   game_thread, loop_alive>>

\* lines 287-293: adjust_difficulty
adjust_difficulty(difficulty_level) ==
    /\ PIPE_SPEED' = BASE_PIPE_SPEED * difficulty_level
    /\ GRAVITY' = BASE_GRAVITY * difficulty_level
    /\ UNCHANGED <<bird, pipes, is_running, is_paused, score, high_score, game_over,
                   current_breathing, breathing_force_active, breathing_force_timer,
                   game_thread, loop_alive>>

\* lines 136-149: _update_game at time t, gap the random gap of a pipe it spawns
update_game(t, gap) ==
    LET floor == HitsFloor(bird, GRAVITY)
        expired == ForceExpired(breathing_force_active, breathing_force_timer, t)
        b == BirdAfterPhysics(bird, GRAVITY)
        ps == PipesAfterUpdate(pipes, PIPE_SPEED, gap)
        hit == Collides(b, ps)
    IN  /\ bird' = b
        /\ breathing_force_active' = (breathing_force_active /\ ~expired)
        /\ current_breathing' = IF expired THEN "neutral" ELSE current_breathing
        /\ pipes' = PipesAfterScore(b, ps)
        /\ score' = score + ScoreGain(b, ps)
        /\ game_over' = (game_over \/ floor \/ hit)
        /\ high_score' = IF floor \/ hit
                         THEN HighScoreAfterGameOver(score, high_score)
                         ELSE high_score
        /\ UNCHANGED <<GRAVITY, PIPE_SPEED, is_running, is_paused,
                       breathing_force_timer, game_thread, loop_alive>>

\* lines 152-176: _update_bird_physics at time t
update_bird_physics(t) ==
    LET floor == HitsFloor(bird, GRAVITY)
        expired == ForceExpired(breathing_force_active, breathing_force_timer, t)
    IN  /\ bird' = BirdAfterPhysics(bird, GRAVITY)
        /\ breathing_force_active' = (breathing_force_active /\ ~expired)
        /\ current_breathing' = IF expired THEN "neutral" ELSE current_breathing
        /\ game_over' = (game_over \/ floor)
        /\ high_score' = IF floor THEN HighScoreAfterGameOver(score, high_score)
                         ELSE high_score
        /\ UNCHANGED <<pipes, GRAVITY, PIPE_SPEED, is_running, is_paused, score,
                       breathing_force_timer, game_thread, loop_alive>>

\* lines 178-190: _update_pipes
update_pipes(gap) ==
    /\ pipes' = PipesAfterUpdate(pipes, PIPE_SPEED, gap)
    /\ UNCHANGED <<bird, GRAVITY, PIPE_SPEED, is_running, is_paused, score,
                   high_score, game_over, current_breathing,
                   breathing_force_active, breathing_force_timer, game_thread,
                   loop_alive>>

\* lines 211-231: _check_collisions
check_collisions ==
    LET hit == Collides(bird, pipes)
    IN  /\ game_over' = (game_over \/ hit)
        /\ high_score' = IF hit THEN HighScoreAfterGameOver(score, high_score)
                         ELSE high_score
        /\ UNCHANGED <<bird, pipes, GRAVITY, PIPE_SPEED, is_running, is_paused,
                       score, current_breathing, breathing_force_active,
                       breathing_force_timer, game_thread, loop_alive>>

\* lines 233-238: _update_score
update_score ==
    /\ pipes' = PipesAfterScore(bird, pipes)
    /\ score' = score + ScoreGain(bird, pipes)
    /\ UNCHANGED <<bird, GRAVITY, PIPE_SPEED, is_running, is_paused, high_score,
                   game_over, current_breathing, breathing_force_active,
                   breathing_force_timer, game_thread, loop_alive>>

\* lines 246-275: what get_game_state copies
GameState ==
    [bird |-> bird, pipes |-> pipes, score |-> score, high_score |-> high_score,
     game_over |-> game_over, is_paused |-> is_paused,
     breathing_state |-> current_breathing,
     breathing_force_active |-> breathing_force_active]

\* lines 120-134: one iteration of _game_loop whose delta_time d has reached
\* frame_time
loop_iteration(d) ==
    /\ loop_alive /\ is_running
    /\ d >= FRAME_TIME
    /\ now' = now + d
    /\ IF ~is_paused /\ ~game_over
       THEN \E gap \in GapChoices : update_game(now + d, gap)
       ELSE UNCHANGED gameVars
    /\ UNCHANGED <<calls, last_input>>

----------------------------------------------------------------------------
(* BreathingDetector.__init__ *)

MIN_STATE_DURATION == 18                \* 0.3 s
CALIBRATION_SIZE == 100                 \* samples that start _auto_calibrate
MIN_SAMPLES == 50                       \* _auto_calibrate returns below this
MIN_VALID == 10                         \* valid samples the statistics need
DEFAULT_SENSITIVITY == 10               \* 1.0

Thousandths == 100                      \* thousandths in a tenth

\* the volumes of the frames heard while calibrating, and once calibrated
CalibVolumes == {0, 50}
FrameVolumes == {0, 50, 1000, 3000}

\* the volumes of a quiet room: 0.4, 0.6 and 30.0
QuietVolumes == {4, 6, 300}

\* a sample that is not finite or is negative
Invalid == -1

Volumes == CalibVolumes \cup FrameVolumes \cup QuietVolumes \cup {Invalid}

EmptySamples == [v \in Volumes |-> 0]

----------------------------------------------------------------------------
(* numpy on a list held as a bag: len, median, mean, std *)

RECURSIVE SumOver(_, _)
SumOver(f, S) ==
    IF S = {} THEN 0
    ELSE LET v == CHOOSE x \in S : TRUE IN f[v] + SumOver(f, S \ {v})

Len_(samples) == SumOver(samples, DOMAIN samples)

\* volumes[np.isfinite(volumes) & (volumes >= 0)]: a negative number stands
\* for every sample that is not finite or is negative
ValidVolumes(samples) ==
    [v \in {x \in DOMAIN samples : x >= 0} |-> samples[v]]

\* the k-th smallest element, k in 1..len
KthSmallest(samples, k) ==
    CHOOSE v \in DOMAIN samples :
        LET below == SumOver(samples, {w \in DOMAIN samples : w < v})
        IN  samples[v] > 0 /\ below < k /\ k <= below + samples[v]

\* np.median
Median(samples) ==
    LET n == Len_(samples)
    IN  IF n % 2 = 1 THEN KthSmallest(samples, (n + 1) \div 2)
        ELSE (KthSmallest(samples, n \div 2) + KthSmallest(samples, n \div 2 + 1)) \div 2

\* np.mean
Mean(samples) ==
    SumOver([v \in DOMAIN samples |-> samples[v] * v], DOMAIN samples)
        \div Len_(samples)

RECURSIVE SqrtBetween(_, _, _)
SqrtBetween(x, lo, hi) ==
    IF lo >= hi THEN lo
    ELSE LET mid == (lo + hi + 1) \div 2
         IN  IF mid * mid <= x THEN SqrtBetween(x, mid, hi)
             ELSE SqrtBetween(x, lo, mid - 1)

ISqrt(x) == SqrtBetween(x, 0, Min(x, 46340))

\* np.std, the population standard deviation sqrt(n*sum(u^2) - sum(u)^2) / n,
\* of the distances u to the least sample (the deviation does not change
\* when all samples are shifted)
Std(samples) ==
    LET n == Len_(samples)
        least == KthSmallest(samples, 1)
        s1 == SumOver([v \in DOMAIN samples |-> samples[v] * (v - least)],
                      DOMAIN samples)
        s2 == SumOver([v \in DOMAIN samples |-> samples[v] * (v - least) * (v - least)],
                      DOMAIN samples)
    IN  ISqrt(n * s2 - s1 * s1) \div n

----------------------------------------------------------------------------
(* BreathingDetector: calibration and classification *)

\* lines 133-139: the baseline and the spread, in thousandths
Baseline(valid) ==
    IF Median(valid) = 0 \/ Std(valid) = 0
    THEN Max(100 * 10, Mean(valid)) * Thousandths
    ELSE Median(valid) * Thousandths

Spread(valid) ==
    IF Median(valid) = 0 \/ Std(valid) = 0
    THEN Max(50 * 1000, Baseline(valid) \div 2)
    ELSE Std(valid) * Thousandths

\* line 145
InhaleBeforeSeparation(base, spread, sens) ==
    base + (spread * sens * 12) \div 100

\* lines 148-152
ExhaleBeforeSeparation(base, spread, sens) ==
    Max((base * 3) \div 10, base - (spread * sens * 8) \div 100)

\* line 156
MinSeparation(base) == Max(20 * 1000, (base * 4) \div 10)

\* lines 155-158
TooClose(inhale, exhale, base) ==
    Max(inhale - exhale, exhale - inhale) < MinSeparation(base)

\* line 163: the exhale threshold expanded around the baseline
ExpandedExhale(base) == Max(1 * 1000, base - MinSeparation(base) \div 2)

\* lines 132-163: the profile from at least MIN_VALID valid samples
Profile(valid, sens) ==
    LET base == Baseline(valid)
        spread == Spread(valid)
        inhale == InhaleBeforeSeparation(base, spread, sens)
        exhale == ExhaleBeforeSeparation(base, spread, sens)
    IN  IF TooClose(inhale, exhale, base)
        THEN [baseline |-> base,
              inhale |-> base + MinSeparation(base) \div 2,
              exhale |-> ExpandedExhale(base)]
        ELSE [baseline |-> base, inhale |-> inhale, exhale |-> exhale]

\* lines 124-130: too few valid samples
DefaultProfile ==
    [baseline |-> 100 * 1000, inhale |-> 150 * 1000, exhale |-> 50 * 1000]

\* lines 114-168: _auto_calibrate on the samples
auto_calibrate(samples) ==
    IF Len_(samples) < MIN_SAMPLES
    THEN UNCHANGED <<baseline_volume, inhale_threshold, exhale_threshold, is_calibrated>>
    ELSE LET valid == ValidVolumes(samples)
             p == IF Len_(valid) < MIN_VALID THEN DefaultProfile
                  ELSE Profile(valid, sensitivity)
         IN  /\ baseline_volume' = p.baseline
             /\ inhale_threshold' = p.inhale
             /\ exhale_threshold' = p.exhale
             /\ is_calibrated' = TRUE

\* a buffer that grows and never calibrates
collect_only(volume) ==
    /\ calibration_samples' = [calibration_samples EXCEPT ![volume] = @ + 1]
    /\ UNCHANGED <<baseline_volume, inhale_threshold, exhale_threshold,
                   is_calibrated>>
    /\ UNCHANGED <<sensitivity, breathing_state, last_state_change, events>>

\* lines 106-112: _collect_calibration_data
collect_calibration_data(volume) ==
    LET samples == [calibration_samples EXCEPT ![volume] = @ + 1]
    IN  /\ calibration_samples' = samples
        /\ IF Len_(samples) >= CALIBRATION_SIZE
           THEN auto_calibrate(samples)
           ELSE UNCHANGED <<baseline_volume, inhale_threshold, exhale_threshold,
                            is_calibrated>>
        /\ UNCHANGED <<sensitivity, breathing_state, last_state_change, events>>

\* lines 176-183: the state the volume asks for at time t
TargetState(volume, t) ==
    IF volume * Thousandths > inhale_threshold THEN "inhale"
    ELSE IF volume * Thousandths < exhale_threshold THEN "exhale"
    ELSE IF t - last_state_change > MIN_STATE_DURATION THEN "neutral"
    ELSE breathing_state

\* a change applied without the wait
AppliedAtOnce(new_state, t) == new_state # breathing_state

\* lines 186-187: the change is applied
Applied(new_state, t) ==
    new_state # breathing_state /\ t - last_state_change > MIN_STATE_DURATION

\* a callback called for every state
NotifiedAlways(new_state) == TRUE

\* lines 193-194: the callback is called
Notified(new_state) == new_state \in {"inhale", "exhale"}

\* lines 170-194: _detect_breathing
detect_breathing(volume) ==
    LET new_state == TargetState(volume, now)
    IN  /\ IF Applied(new_state, now)
           THEN /\ breathing_state' = new_state
                /\ last_state_change' = now
                /\ events' = IF Notified(new_state)
                             THEN Append(events, [type |-> new_state, volume |-> volume])
                             ELSE events
           ELSE UNCHANGED <<breathing_state, last_state_change, events>>
        /\ UNCHANGED <<sensitivity, baseline_volume, inhale_threshold,
                       exhale_threshold, calibration_samples, is_calibrated>>

\* lines 89-93: _audio_callback hands the smoothed volume of the frame to the
\* classifier or to the calibration
audio_callback(volume) ==
    /\ smoothed_volume' = volume
    /\ IF is_calibrated THEN detect_breathing(volume)
       ELSE collect_calibration_data(volume)

\* lines 205-212: recalibrate
recalibrate ==
    /\ calibration_samples' = EmptySamples
    /\ is_calibrated' = FALSE
    /\ baseline_volume' = 0
    /\ inhale_threshold' = 0
    /\ exhale_threshold' = 0
    /\ UNCHANGED <<sensitivity, breathing_state, last_state_change,
                   smoothed_volume, events>>

\* a sensitivity stored as given
Unclamped(s) == s

\* line 216: the sensitivity kept in [0.1, 3.0]
ClampSensitivity(s) == Max(1, Min(30, s))

\* a sensitivity stored without the thresholds being recomputed
set_sensitivity_only(s) ==
    /\ sensitivity' = ClampSensitivity(s)
    /\ UNCHANGED <<baseline_volume, inhale_threshold, exhale_threshold>>
    /\ UNCHANGED <<breathing_state, last_state_change, calibration_samples,
                   is_calibrated, smoothed_volume, events>>

\* lines 214-219: set_sensitivity; _auto_calibrate reads the new sensitivity
set_sensitivity(s) ==
    /\ sensitivity' = ClampSensitivity(s)
    /\ IF is_calibrated
       THEN LET valid == ValidVolumes(calibration_samples)
                p == IF Len_(valid) < MIN_VALID THEN DefaultProfile
                     ELSE Profile(valid, ClampSensitivity(s))
            IN  IF Len_(calibration_samples) < MIN_SAMPLES
                THEN UNCHANGED <<baseline_volume, inhale_threshold, exhale_threshold>>
                ELSE /\ baseline_volume' = p.baseline
                     /\ inhale_threshold' = p.inhale
                     /\ exhale_threshold' = p.exhale
       ELSE UNCHANGED <<baseline_volume, inhale_threshold, exhale_threshold>>
    /\ UNCHANGED <<breathing_state, last_state_change, calibration_samples,
                   is_calibrated, smoothed_volume, events>>

----------------------------------------------------------------------------
(* The game object and its callers *)

GameInit ==
    /\ bird = NewBird
    /\ pipes = <<>>
    /\ GRAVITY = BASE_GRAVITY
    /\ PIPE_SPEED = BASE_PIPE_SPEED
    /\ is_running = FALSE
    /\ is_paused = FALSE
    /\ score = 0
    /\ high_score = 0
    /\ game_over = FALSE
    /\ current_breathing = "neutral"
    /\ breathing_force_active = FALSE
    /\ breathing_force_timer = 0
    /\ game_thread = 0
    /\ loop_alive = FALSE

\* BreathingDetector.__init__, lines 17-36
DetectorInit ==
    /\ sensitivity = DEFAULT_SENSITIVITY
    /\ breathing_state = "neutral"
    /\ last_state_change = 0
    /\ baseline_volume = 0
    /\ inhale_threshold = 0
    /\ exhale_threshold = 0
    /\ calibration_samples = EmptySamples
    /\ is_calibrated = FALSE
    /\ smoothed_volume = 0
    /\ events = <<>>
    /\ volumes = <<>>

\* the loop thread, the audio thread that delivers breathing events and a
\* thread of the server that serves a client
Threads == {"loop", "audio", "control"}

\* a thread outside the lock, at a `with self.lock`, and inside it
Out == [at |-> "out", op |-> "none"]
Waiting(op) == [at |-> "wait", op |-> op]
Inside(op) == [at |-> "in", op |-> op]

\* no thread of the game object exists before start_game
\* the request threads of the server (async_mode='threading': one thread for
\* every request that is being handled)
Requests == 1..MaxRequests

Idle == [pc |-> "idle", kind |-> "none", ref |-> 0]

ThreadInit ==
    /\ lock = "free"
    /\ pc = [t \in Threads |-> Out]
    /\ snapshot = <<>>
    /\ detector = "none"
    /\ det_running = FALSE
    /\ stream = "none"
    /\ audio = "ready"
    /\ audio_log = <<>>
    /\ game = 0
    /\ games = <<>>
    /\ requests = [r \in Requests |-> Idle]
    /\ filtered_volume = <<>>
    /\ loop_pc = "none"
    /\ current_time = 0
    /\ last_time = 0
    /\ stop_pc = "idle"
    /\ join_deadline = 0
    /\ pending_breath = "none"

EnvInit ==
    /\ now = 0
    /\ calls = 0
    /\ last_op = "init"
    /\ prev_op = "init"
    /\ last_input = -1

Init == GameInit /\ DetectorInit /\ ThreadInit /\ EnvInit

\* a call of the game's interface by a client of the server
Op(op) == last_op' = op /\ prev_op' = last_op

Call(op) ==
    /\ calls < MaxCalls
    /\ calls' = calls + 1
    /\ Op(op)
    /\ UNCHANGED <<now, last_input>>
    /\ UNCHANGED <<detVars, threadVars, lockVars, audioVars, serverVars, filtered_volume>>

StartGame == start_game /\ Call("start")

StopGame == stop_game /\ Call("stop")

PauseGame == pause_game /\ Call("pause")

ResetGame == reset_game /\ Call("reset")

\* server.py lines 286-290: _on_breathing_detected passes the event on to a
\* running game
on_breathing_detected(breath_type) ==
    IF is_running THEN on_breathing_input(breath_type) ELSE UNCHANGED gameVars

\* server.py lines 288-290: the handler runs on the audio thread; it reads
\* is_running, and calls on_breathing_input after that
HandlerCheck ==
    /\ pending_breath = "none"
    /\ calls < MaxCalls
    /\ calls' = calls + 1
    /\ \E t \in BreathTypes :
           IF is_running
           THEN pending_breath' = t /\ UNCHANGED <<last_op, prev_op>>
           ELSE Op(t) /\ UNCHANGED pending_breath
    /\ UNCHANGED <<loop_pc, current_time, last_time, stop_pc, join_deadline>>
    /\ UNCHANGED <<now, last_input>>
    /\ UNCHANGED <<gameVars, detVars, lockVars, audioVars, serverVars, filtered_volume>>

HandlerCall ==
    /\ pending_breath # "none"
    /\ on_breathing_input(pending_breath)
    /\ pending_breath' = "none"
    /\ Op(pending_breath)
    /\ UNCHANGED <<loop_pc, current_time, last_time, stop_pc, join_deadline>>
    /\ UNCHANGED <<now, calls, last_input>>
    /\ UNCHANGED <<detVars, lockVars, audioVars, serverVars, filtered_volume>>

\* the difficulty is set between sessions
AdjustDifficulty ==
    /\ ~is_running
    /\ \E l \in DifficultyLevels : adjust_difficulty(l)
    /\ Call("adjust")

\* the loop thread's iteration; the clock of the model stops with the game
Tick ==
    /\ now < MaxTime
    /\ ~game_over
    /\ loop_iteration(FRAME_TIME)
    /\ Op("tick")
    /\ UNCHANGED <<detVars, threadVars, lockVars, audioVars, serverVars, filtered_volume>>

Next ==
    \/ StartGame
    \/ StopGame
    \/ PauseGame
    \/ ResetGame
    \/ HandlerCheck
    \/ HandlerCall
    \/ AdjustDifficulty
    \/ Tick

Spec == Init /\ [][Next]_vars

----------------------------------------------------------------------------
(* A whole session: the game is started at the hardest documented          *)
(* difficulty (the obstacles reach the body after 114 ticks) and played    *)
(* until it is over.  Clients call at every InputEvery-th frame and after  *)
(* the game is over; the clock of the model stops with the physics.        *)

HardLevel == CHOOSE l \in DifficultyLevels : \A m \in DifficultyLevels : m <= l

CallTime == game_over \/ now % InputEvery = 0

SessionAdjust ==
    /\ game_thread = 0
    /\ AdjustDifficulty

\* the body does not reach the second and the third pipe within the session
SessionStart ==
    /\ GRAVITY = BASE_GRAVITY * HardLevel
    /\ game_thread = 0
    /\ start_with(GapChoices, FarGap)
    /\ Call("start")

SessionStop == CallTime /\ is_running /\ StopGame

SessionPause == CallTime /\ is_running /\ PauseGame

\* one breathing event at a call time, through the server's handler
SessionBreathing ==
    /\ CallTime
    /\ last_input # now
    /\ \E t \in BreathTypes :
           /\ on_breathing_detected(t)
           /\ Op(t)
    /\ last_input' = now
    /\ UNCHANGED <<now, calls>>
    /\ UNCHANGED <<detVars, threadVars, lockVars, audioVars, serverVars, filtered_volume>>

SessionTick ==
    /\ now < MaxSessionTime
    /\ ~game_over /\ ~is_paused
    /\ loop_iteration(FRAME_TIME)
    /\ Op("tick")
    /\ UNCHANGED <<detVars, threadVars, lockVars, audioVars, serverVars, filtered_volume>>

SessionNext ==
    \/ SessionAdjust
    \/ SessionStart
    \/ SessionStop
    \/ SessionPause
    \/ SessionBreathing
    \/ SessionTick

SpecSession == Init /\ [][SessionNext]_vars

----------------------------------------------------------------------------
(* The detector: the audio thread delivers one frame after the other.  No  *)
(* code reads the clock while the detector calibrates; the clock of the    *)
(* model runs once it is calibrated.                                       *)

MaxDetTime == 60       \* frames the calibrated detector is followed for

\* the time between two frames, or a pause of the audio thread
TimeSteps == {9, 10}

AudioFrame ==
    /\ \E volume \in (IF is_calibrated THEN FrameVolumes ELSE CalibVolumes) :
           audio_callback(volume)
    /\ Op("frame")
    /\ UNCHANGED <<now, calls, last_input>>
    /\ UNCHANGED <<gameVars, threadVars, lockVars, volumes, audioVars, serverVars, filtered_volume>>

AdvanceTime ==
    /\ is_calibrated
    /\ \E d \in TimeSteps :
           /\ now + d <= MaxDetTime
           /\ now' = now + d
    /\ Op("time")
    /\ UNCHANGED <<calls, last_input>>
    /\ UNCHANGED <<gameVars, detVars, threadVars, lockVars, audioVars, serverVars, filtered_volume>>

DetectorNext ==
    \/ AudioFrame
    \/ AdvanceTime

SpecDetector == Init /\ [][DetectorNext]_vars

----------------------------------------------------------------------------
(* The threads of one game object.  _game_loop is followed step by step:   *)
(* "test" is `while self.is_running`, "frame" reads the clock and the      *)
(* flags, "update" is _update_game under the lock, "publish" is the        *)
(* callback and the assignment of last_time, "sleep" is time.sleep.  The   *)
(* callers (server.py, unified_app.py) start a game object once: a new     *)
(* game is a new object.  The clock counts from the start of the loop: it  *)
(* advances while the loop sleeps and while its callback stalls;           *)
(* join(timeout) returns at its deadline at the latest.                    *)

JOIN_TIMEOUT == 60      \* 1.0 s
MaxLoopTime == 64       \* frames a game object is followed for

\* how long a callback may stall
StallTimes == {JOIN_TIMEOUT}

\* a loop that never looks at the flag
LoopForever == TRUE

\* line 120: while self.is_running
LoopContinues == is_running

\* line 124: delta_time >= frame_time
FrameDue(t, last) == t - last >= FRAME_TIME

\* line 125: the flags are read without the lock
UpdateWanted == ~is_paused /\ ~game_over

LoopCall(op) ==
    /\ calls < MaxCalls
    /\ calls' = calls + 1
    /\ Op(op)
    /\ UNCHANGED <<now, last_input, pending_breath>>
    /\ UNCHANGED <<detVars, lockVars, audioVars, serverVars, filtered_volume>>

\* the pipes are far from the body for as long as the object is followed
LoopStart ==
    /\ game_thread = 0
    /\ start_with(FarGap, FarGap)
    /\ loop_pc' = "test"
    /\ last_time' = now
    /\ UNCHANGED <<current_time, stop_pc, join_deadline>>
    /\ LoopCall("start")

LoopStop ==
    /\ stop_pc = "idle"
    /\ stop_flag
    /\ IF game_thread > 0
       THEN stop_pc' = "join" /\ join_deadline' = now + JOIN_TIMEOUT
       ELSE UNCHANGED <<stop_pc, join_deadline>>
    /\ UNCHANGED <<loop_pc, current_time, last_time>>
    /\ LoopCall("stop")

\* line 73: join returns when the thread has ended or the timeout is over
JoinReturn ==
    /\ stop_pc = "join"
    /\ loop_pc = "done" \/ now >= join_deadline
    /\ stop_pc' = "idle"
    /\ Op("join")
    /\ UNCHANGED <<loop_pc, current_time, last_time, join_deadline>>
    /\ UNCHANGED <<now, calls, last_input, pending_breath>>
    /\ UNCHANGED <<gameVars, detVars, lockVars, audioVars, serverVars, filtered_volume>>

LoopPause ==
    /\ now % InputEvery = 0
    /\ pause_game
    /\ UNCHANGED threadVars
    /\ LoopCall("pause")

LoopStep(op) ==
    /\ Op(op)
    /\ UNCHANGED <<stop_pc, join_deadline, pending_breath>>
    /\ UNCHANGED <<now, calls, last_input>>
    /\ UNCHANGED <<detVars, lockVars, audioVars, serverVars, filtered_volume>>

LoopTest ==
    /\ loop_pc = "test"
    /\ IF LoopContinues
       THEN loop_pc' = "frame" /\ UNCHANGED gameVars
       ELSE /\ loop_pc' = "done"
            /\ loop_alive' = FALSE
            /\ UNCHANGED <<bird, pipes, GRAVITY, PIPE_SPEED, is_running, is_paused,
                           score, high_score, game_over, current_breathing,
                           breathing_force_active, breathing_force_timer,
                           game_thread>>
    /\ UNCHANGED <<current_time, last_time>>
    /\ LoopStep("test")

LoopFrame ==
    /\ loop_pc = "frame"
    /\ current_time' = now
    /\ loop_pc' = IF ~FrameDue(now, last_time) THEN "sleep"
                  ELSE IF UpdateWanted THEN "update" ELSE "publish"
    /\ UNCHANGED last_time
    /\ UNCHANGED gameVars
    /\ LoopStep("frame")

LoopUpdate ==
    /\ loop_pc = "update"
    /\ \E gap \in GapChoices : update_game(now, gap)
    /\ loop_pc' = "publish"
    /\ UNCHANGED <<current_time, last_time>>
    /\ LoopStep("update")

\* a loop that owes one tick for every frame time that has passed
LoopCatchUp ==
    /\ loop_pc = "publish"
    /\ last_time' = last_time + FRAME_TIME
    /\ loop_pc' = "sleep"
    /\ UNCHANGED current_time
    /\ UNCHANGED gameVars
    /\ LoopStep("publish")

LoopPublish ==
    /\ loop_pc = "publish"
    /\ last_time' = current_time
    /\ loop_pc' = "sleep"
    /\ UNCHANGED current_time
    /\ UNCHANGED gameVars
    /\ LoopStep("publish")

LoopSleep ==
    /\ loop_pc = "sleep"
    /\ loop_pc' = "test"
    /\ UNCHANGED <<current_time, last_time>>
    /\ UNCHANGED gameVars
    /\ LoopStep("sleep")

Passing(op) ==
    /\ Op(op)
    /\ UNCHANGED <<calls, last_input>>
    /\ UNCHANGED <<gameVars, detVars, threadVars, lockVars, audioVars, serverVars, filtered_volume>>

\* a frame of time passes while the loop sleeps
ClockTick ==
    /\ now < MaxLoopTime
    /\ loop_pc = "sleep"
    /\ ~FrameDue(now, last_time)
    /\ stop_pc = "join" => now < join_deadline
    /\ now' = now + 1
    /\ Passing("clock")

\* the callback of the loop stalls
CallbackStall ==
    /\ loop_pc = "publish"
    /\ stop_pc = "join" => now < join_deadline
    /\ \E d \in StallTimes :
           /\ now + d <= MaxLoopTime
           /\ now' = IF stop_pc = "join" THEN Min(now + d, join_deadline)
                     ELSE now + d
    /\ Passing("stall")

LoopNext ==
    \/ LoopStart
    \/ LoopStop
    \/ JoinReturn
    \/ LoopPause
    \/ LoopTest
    \/ LoopFrame
    \/ LoopUpdate
    \/ LoopPublish
    \/ LoopSleep
    \/ ClockTick
    \/ CallbackStall

SpecLoop == Init /\ [][LoopNext]_vars

\* the scheduler runs the loop thread and the caller of stop_game again and
\* again, and the callback returns
SpecLoopFair ==
    /\ Init /\ [][LoopNext]_vars
    /\ WF_vars(LoopTest)
    /\ WF_vars(LoopFrame)
    /\ WF_vars(LoopUpdate)
    /\ WF_vars(LoopPublish)
    /\ WF_vars(LoopSleep)
    /\ WF_vars(JoinReturn)

----------------------------------------------------------------------------
(* Faults.  _game_loop has no try/except: an exception raised by the       *)
(* callback of line 130 leaves the loop and ends the thread.               *)

\* lines 129-130: the callback raises
CallbackFault ==
    /\ loop_pc = "publish"
    /\ loop_pc' = "done"
    /\ loop_alive' = FALSE
    /\ UNCHANGED <<bird, pipes, GRAVITY, PIPE_SPEED, is_running, is_paused,
                   score, high_score, game_over, current_breathing,
                   breathing_force_active, breathing_force_timer, game_thread>>
    /\ UNCHANGED <<current_time, last_time>>
    /\ LoopStep("fault")

FaultNext ==
    \/ LoopNext
    \/ CallbackFault

SpecFault == Init /\ [][FaultNext]_vars

----------------------------------------------------------------------------
(* Calibration: the buffer holds CALIBRATION_SIZE - 1 samples of a quiet   *)
(* room, the next frame calibrates, and the sensitivity is set at any time *)

CountStep == 5        \* the counts of 0.4 and of 0.6 are multiples of it

Counts == {k * CountStep : k \in 0..((CALIBRATION_SIZE - 1) \div CountStep)}

QuietSamples(low, high) ==
    [v \in Volumes |-> IF v = 4 THEN low
                       ELSE IF v = 6 THEN high
                       ELSE IF v = 300 THEN CALIBRATION_SIZE - 1 - low - high
                       ELSE 0]

SensitivityInputs == {0, 1, 10, 30, 35}

CalibInit ==
    /\ GameInit /\ ThreadInit /\ EnvInit
    /\ sensitivity = DEFAULT_SENSITIVITY
    /\ breathing_state = "neutral"
    /\ last_state_change = 0
    /\ baseline_volume = 0
    /\ inhale_threshold = 0
    /\ exhale_threshold = 0
    /\ \E low \in Counts :
           \E high \in {h \in Counts : low + h <= CALIBRATION_SIZE - 1} :
               calibration_samples = QuietSamples(low, high)
    /\ is_calibrated = FALSE
    /\ smoothed_volume \in {v \in QuietVolumes : calibration_samples[v] > 0}
    /\ events = <<>>
    /\ volumes = <<>>

CalibFrame ==
    /\ ~is_calibrated
    /\ \E volume \in QuietVolumes : audio_callback(volume)
    /\ Op("frame")
    /\ UNCHANGED <<now, calls, last_input>>
    /\ UNCHANGED <<gameVars, threadVars, lockVars, volumes, audioVars, serverVars, filtered_volume>>

SetSensitivity ==
    /\ \E s \in SensitivityInputs : set_sensitivity(s)
    /\ Op("sensitivity")
    /\ UNCHANGED <<now, calls, last_input>>
    /\ UNCHANGED <<gameVars, threadVars, lockVars, volumes, audioVars, serverVars, filtered_volume>>

CalibNext ==
    \/ CalibFrame
    \/ SetSensitivity

SpecCalib == CalibInit /\ [][CalibNext]_vars

----------------------------------------------------------------------------
(* The calibration buffer: _collect_calibration_data is handed samples of  *)
(* any value, also values that _audio_callback would have replaced, and    *)
(* recalibrate is called at any time.                                      *)

SampleInputs == {Invalid, 50}

CollectSample ==
    /\ ~is_calibrated
    /\ \E volume \in SampleInputs :
           /\ collect_calibration_data(volume)
           /\ smoothed_volume' = volume
    /\ Op("sample")
    /\ UNCHANGED <<now, calls, last_input>>
    /\ UNCHANGED <<gameVars, threadVars, lockVars, volumes, audioVars, serverVars, filtered_volume>>

Recalibrate ==
    /\ recalibrate
    /\ calls < MaxCalls
    /\ calls' = calls + 1
    /\ Op("recalibrate")
    /\ UNCHANGED <<now, last_input>>
    /\ UNCHANGED <<gameVars, threadVars, lockVars, volumes, audioVars, serverVars, filtered_volume>>

CollectNext ==
    \/ CollectSample
    \/ Recalibrate

SpecCollect == Init /\ [][CollectNext]_vars

----------------------------------------------------------------------------
(* The game's lock (line 57, a threading.Lock).  Every `with self.lock` is *)
(* followed in two steps or more: the thread waits at it, enters when the  *)
(* lock is free, and leaves at the end of the block; _update_game is       *)
(* followed through its four calls.  The loop thread reads is_paused and   *)
(* game_over before it waits (line 125) and calls get_game_state for its   *)
(* callback after the tick (line 130).                                     *)

MaxLockTime == 3     \* iterations the loop thread is followed for

\* a lock that lets every thread in
LockIgnored == TRUE

\* threading.Lock: acquire returns when no thread holds the lock
LockFree == lock = "free"

ControlOps == {"pause", "reset", "state"}
TickOps == {"physics", "pipes", "collisions", "score"}

Acquire ==
    /\ \E t \in Threads :
           /\ pc[t].at = "wait"
           /\ LockFree
           /\ lock' = t
           /\ pc' = [pc EXCEPT ![t] = Inside(pc[t].op)]
    /\ UNCHANGED <<snapshot, now, calls, last_op, prev_op, last_input>>
    /\ UNCHANGED <<gameVars, detVars, threadVars, audioVars, serverVars, filtered_volume>>

\* the end of the block: the lock is released and the thread goes on
Leave(t, next) ==
    /\ lock' = "free"
    /\ pc' = [pc EXCEPT ![t] = next]

LockStart ==
    /\ game_thread = 0
    /\ lock = "free"
    /\ start_with(FarGap, FarGap)
    /\ Op("start")
    /\ UNCHANGED <<now, calls, last_input>>
    /\ UNCHANGED <<detVars, threadVars, lockVars, audioVars, serverVars, filtered_volume>>

\* a breathing event or a client's request arrives
Request ==
    /\ game_thread > 0
    /\ calls < MaxCalls
    /\ calls' = calls + 1
    /\ \/ \E b \in BreathTypes :
              /\ pc["audio"] = Out
              /\ pc' = [pc EXCEPT !["audio"] = Waiting(b)]
       \/ \E op \in ControlOps :
              /\ pc["control"] = Out
              /\ pc' = [pc EXCEPT !["control"] = Waiting(op)]
    /\ UNCHANGED <<lock, snapshot, now, last_op, prev_op, last_input>>
    /\ UNCHANGED <<gameVars, detVars, threadVars, audioVars, serverVars, filtered_volume>>

BreathingBody ==
    /\ \E b \in BreathTypes :
           /\ pc["audio"] = Inside(b)
           /\ on_breathing_input(b)
           /\ Op(b)
    /\ Leave("audio", Out)
    /\ UNCHANGED <<snapshot, now, calls, last_input>>
    /\ UNCHANGED <<detVars, threadVars, audioVars, serverVars, filtered_volume>>

PauseBody ==
    /\ pc["control"] = Inside("pause")
    /\ pause_game
    /\ Leave("control", Out)
    /\ Op("pause")
    /\ UNCHANGED <<snapshot, now, calls, last_input>>
    /\ UNCHANGED <<detVars, threadVars, audioVars, serverVars, filtered_volume>>

ResetBody ==
    /\ pc["control"] = Inside("reset")
    /\ \E g \in FarGap : ResetFields(g, g, g)
    /\ UNCHANGED <<GRAVITY, PIPE_SPEED, is_running, is_paused, high_score,
                   current_breathing, game_thread, loop_alive>>
    /\ Leave("control", Out)
    /\ Op("reset")
    /\ UNCHANGED <<snapshot, now, calls, last_input>>
    /\ UNCHANGED <<detVars, threadVars, audioVars, serverVars, filtered_volume>>

\* lines 246-275: get_game_state, called by a client's thread or by the loop
\* thread for its callback
StateBody ==
    /\ \E t \in {"control", "loop"} :
           /\ pc[t] = Inside("state")
           /\ Leave(t, Out)
    /\ snapshot' = <<GameState>>
    /\ Op("state")
    /\ UNCHANGED <<now, calls, last_input>>
    /\ UNCHANGED <<gameVars, detVars, threadVars, audioVars, serverVars, filtered_volume>>

\* lines 120-126: an iteration whose frame is due
LockLoop ==
    /\ pc["loop"] = Out
    /\ loop_alive /\ is_running
    /\ now < MaxLockTime
    /\ now' = now + FRAME_TIME
    /\ pc' = [pc EXCEPT !["loop"] = IF ~is_paused /\ ~game_over
                                    THEN Waiting("physics")
                                    ELSE Waiting("state")]
    /\ UNCHANGED <<lock, snapshot, calls, last_op, prev_op, last_input>>
    /\ UNCHANGED <<gameVars, detVars, threadVars, audioVars, serverVars, filtered_volume>>

TickStep(op, next) ==
    /\ pc["loop"] = Inside(op)
    /\ pc' = [pc EXCEPT !["loop"] = Inside(next)]
    /\ UNCHANGED <<lock, snapshot, now, calls, last_op, prev_op, last_input>>
    /\ UNCHANGED <<detVars, threadVars, audioVars, serverVars, filtered_volume>>

TickPhysics == update_bird_physics(now) /\ TickStep("physics", "pipes")

TickPipes ==
    /\ \E gap \in FarGap : update_pipes(gap)
    /\ TickStep("pipes", "collisions")

TickCollisions == check_collisions /\ TickStep("collisions", "score")

TickScore ==
    /\ pc["loop"] = Inside("score")
    /\ update_score
    /\ Leave("loop", Waiting("state"))
    /\ Op("tick")
    /\ UNCHANGED <<snapshot, now, calls, last_input>>
    /\ UNCHANGED <<detVars, threadVars, audioVars, serverVars, filtered_volume>>

LockNext ==
    \/ LockStart
    \/ Request
    \/ Acquire
    \/ BreathingBody
    \/ PauseBody
    \/ ResetBody
    \/ StateBody
    \/ LockLoop
    \/ TickPhysics
    \/ TickPipes
    \/ TickCollisions
    \/ TickScore

SpecLock == Init /\ [][LockNext]_vars

----------------------------------------------------------------------------
(* The audio device of the server's detector (server.py lines 253-290 and  *)
(* 339-351, breathing_detector.py lines 38-67).  A request to start a game *)
(* is followed from the stop of the old game to the start of the new one;  *)
(* whether the device can be opened and started is the environment's       *)
(* choice, and so is whether the library raises when it is asked to stop a *)
(* stream that is closed.  The classifier is left out: a running detector  *)
(* may call its callback with any event.                                   *)

\* self.audio.open raises, self.stream.start_stream raises, or neither
DeviceOutcomes == {"open fails", "start fails", "started"}

\* lines 38-53: start_audio_stream on a new detector
StreamAfterStart(outcome) == IF outcome = "open fails" THEN "none" ELSE "active"
RunningAfterStart(outcome) == outcome = "started"

\* a stop of a stream that is closed raises in the library
StopRaises(raises) == stream = "closed" /\ raises

\* lines 55-62: the calls stop_audio_stream makes
LogAfterStop(raises) ==
    IF stream = "none" THEN Append(audio_log, "terminate")
    ELSE IF StopRaises(raises) THEN Append(audio_log, "stop")
    ELSE audio_log \o <<"stop", "close", "terminate">>

\* lines 55-62: stop_audio_stream
stop_audio_stream(raises) ==
    /\ det_running' = FALSE
    /\ audio_log' = LogAfterStop(raises)
    /\ stream' = IF stream = "none" THEN "none" ELSE "closed"
    /\ audio' = IF StopRaises(raises) THEN audio ELSE "terminated"
    /\ UNCHANGED detector

\* server.py lines 259 and 267: a new FlappyBirdGame, started
new_game ==
    /\ bird' = NewBird
    /\ \E g \in FarGap : pipes' = InitialPipes(g, g, g)
    /\ GRAVITY' = BASE_GRAVITY
    /\ PIPE_SPEED' = BASE_PIPE_SPEED
    /\ is_running' = TRUE
    /\ is_paused' = FALSE
    /\ score' = 0
    /\ high_score' = 0
    /\ game_over' = FALSE
    /\ current_breathing' = "neutral"
    /\ breathing_force_active' = FALSE
    /\ breathing_force_timer' = 0
    /\ game_thread' = 1
    /\ loop_alive' = TRUE

\* server.py lines 253-284: _start_new_game.  The old detector is stopped
\* when it is not running; an exception of that stop leaves the request
\* before the new game is made.
ServerStartGame ==
    /\ \E outcome \in DeviceOutcomes, raises \in BOOLEAN :
           IF detector = "some" /\ det_running
           THEN new_game /\ UNCHANGED audioVars
           ELSE IF detector = "some" /\ StopRaises(raises)
           THEN /\ stop_audio_stream(raises)
                /\ stop_game
           ELSE /\ new_game
                /\ detector' = "some"
                /\ det_running' = RunningAfterStart(outcome)
                /\ stream' = StreamAfterStart(outcome)
                /\ audio' = "ready"
                /\ audio_log' = <<>>
    /\ calls < MaxCalls
    /\ calls' = calls + 1
    /\ Op("start_game")
    /\ UNCHANGED <<now, last_input>>
    /\ UNCHANGED <<detVars, threadVars, lockVars, serverVars, filtered_volume>>

\* server.py lines 339-351: stop_server
ServerStop ==
    /\ stop_game
    /\ IF detector = "some"
       THEN \E raises \in BOOLEAN : stop_audio_stream(raises)
       ELSE UNCHANGED audioVars
    /\ calls < MaxCalls
    /\ calls' = calls + 1
    /\ Op("stop_server")
    /\ UNCHANGED <<now, last_input>>
    /\ UNCHANGED <<detVars, threadVars, lockVars, serverVars, filtered_volume>>

\* a callback that does not look at is_running
audio_event_always(t) == on_breathing_detected(t) /\ Op(t)

\* breathing_detector.py lines 64-67 and server.py lines 286-290: a frame
\* of the stream; a detector that is not running returns at once, a running
\* one may detect t and call the server's handler
audio_event(t) ==
    IF det_running
    THEN on_breathing_detected(t) /\ Op(t)
    ELSE UNCHANGED gameVars /\ Op("frame")

AudioEvent ==
    /\ stream = "active"
    /\ \E t \in BreathTypes : audio_event(t)
    /\ calls < MaxCalls
    /\ calls' = calls + 1
    /\ UNCHANGED <<now, last_input>>
    /\ UNCHANGED <<detVars, threadVars, lockVars, audioVars, serverVars, filtered_volume>>

AudioNext ==
    \/ ServerStartGame
    \/ ServerStop
    \/ AudioEvent
    \/ Tick

SpecAudio == Init /\ [][AudioNext]_vars

----------------------------------------------------------------------------
(* The pipe track of one session, followed through _update_pipes alone for *)
(* as long as a body that stays alive sees it: long enough for the first   *)
(* pipe to leave the screen at the base speed and for the pipe after the   *)
(* third one to appear.                                                    *)

MaxPipeTime == 310   \* ticks the track is followed for

PipesAdjust ==
    /\ game_thread = 0
    /\ AdjustDifficulty

PipesStart ==
    /\ game_thread = 0
    /\ start_with(GapChoices, FarGap)
    /\ Call("start")

\* line 111: the call of _update_pipes in a tick
PipesTick ==
    /\ is_running
    /\ now < MaxPipeTime
    /\ \E gap \in GapChoices : update_pipes(gap)
    /\ now' = now + 1
    /\ Op("pipes")
    /\ UNCHANGED <<calls, last_input>>
    /\ UNCHANGED <<detVars, threadVars, lockVars, audioVars, serverVars, filtered_volume>>

PipesNext ==
    \/ PipesAdjust
    \/ PipesStart
    \/ PipesTick

SpecPipes == Init /\ [][PipesNext]_vars

----------------------------------------------------------------------------
(* A session in which the body is left to fall: the game is started once,  *)
(* breathing events arrive at every InputEvery-th frame or not at all, and *)
(* the loop ticks until the game is over.                                  *)

MaxFallTime == 48    \* ticks the fall is followed for

FallTick ==
    /\ now < MaxFallTime
    /\ ~game_over
    /\ loop_iteration(FRAME_TIME)
    /\ Op("tick")
    /\ UNCHANGED <<detVars, threadVars, lockVars, audioVars, serverVars, filtered_volume>>

FallNext ==
    \/ PipesAdjust
    \/ PipesStart
    \/ SessionBreathing
    \/ FallTick

SpecFall == Init /\ [][FallNext]_vars

----------------------------------------------------------------------------
(* The server's start_game and stop_game requests.  Every request is       *)
(* handled on a thread of its own, and _start_new_game and the stop        *)
(* handlers take no lock: a request is followed from one read or write of  *)
(* self.game, is_running and game_thread to the next.  join is taken to    *)
(* return when the loop of the object has ended (no callback stalls).  A   *)
(* loop thread is followed as far as its first callback and its end.       *)

RequestKinds == {"start_game", "stop_game"}

\* FlappyBirdGame.__init__ lines 49-56, as far as the loop thread is concerned
NewGame == [is_running |-> FALSE, game_thread |-> FALSE, live |-> 0,
            published |-> FALSE]

\* where a request goes on after its `if self.game: self.game.stop_game()`
AfterStop(kind) == IF kind = "start_game" THEN "create" ELSE "idle"

RequestStep(op) ==
    /\ Op(op)
    /\ UNCHANGED <<now, last_input>>
    /\ UNCHANGED <<gameVars, detVars, threadVars, lockVars, audioVars,
                   filtered_volume>>

\* server.py lines 177-179, 189-190, 218-221, 229-230: a request arrives
Begin(r) ==
    /\ requests[r].pc = "idle"
    /\ calls < MaxCalls
    /\ calls' = calls + 1
    /\ \E kind \in RequestKinds :
           requests' = [requests EXCEPT ![r] = [pc |-> "check", kind |-> kind,
                                                ref |-> 0]]
    /\ UNCHANGED <<game, games>>
    /\ RequestStep("request")

\* server.py lines 191, 231, 256: if self.game
CheckGame(r) ==
    /\ requests[r].pc = "check"
    /\ requests' = [requests EXCEPT ![r].pc =
                        IF game # 0 THEN "stop" ELSE AfterStop(requests[r].kind)]
    /\ UNCHANGED <<game, games, calls>>
    /\ RequestStep("check")

\* server.py line 257 and flappy_bird_game.py lines 71-72: self.game is read
\* again, stop_game clears is_running and looks at game_thread
StopFlag(r) ==
    /\ requests[r].pc = "stop"
    /\ games' = [games EXCEPT ![game].is_running = FALSE]
    /\ requests' = [requests EXCEPT
                        ![r].ref = game,
                        ![r].pc = IF games[game].game_thread THEN "join"
                                  ELSE AfterStop(requests[r].kind)]
    /\ UNCHANGED <<game, calls>>
    /\ RequestStep("stop")

\* flappy_bird_game.py line 73: join
Join(r) ==
    /\ requests[r].pc = "join"
    /\ games[requests[r].ref].live = 0
    /\ requests' = [requests EXCEPT ![r].pc = AfterStop(requests[r].kind)]
    /\ UNCHANGED <<game, games, calls>>
    /\ RequestStep("join")

\* server.py line 260: self.game = FlappyBirdGame(...)
CreateGame(r) ==
    /\ requests[r].pc = "create"
    /\ games' = Append(games, NewGame)
    /\ game' = Len(games) + 1
    /\ requests' = [requests EXCEPT ![r].pc = "start"]
    /\ UNCHANGED calls
    /\ RequestStep("create")

\* server.py line 267 and flappy_bird_game.py lines 61-62: self.game is read,
\* start_game returns if the object is running
StartTest(r) ==
    /\ requests[r].pc = "start"
    /\ requests' = [requests EXCEPT
                        ![r].ref = game,
                        ![r].pc = IF games[game].is_running THEN "idle"
                                  ELSE "spawn"]
    /\ UNCHANGED <<game, games, calls>>
    /\ RequestStep("start")

\* flappy_bird_game.py lines 64-67: is_running is set and the thread started
SpawnLoop(r) ==
    /\ requests[r].pc = "spawn"
    /\ games' = [games EXCEPT ![requests[r].ref] =
                     [@ EXCEPT !.is_running = TRUE, !.game_thread = TRUE,
                               !.live = @ + 1]]
    /\ requests' = [requests EXCEPT ![r].pc = "idle"]
    /\ UNCHANGED <<game, calls>>
    /\ RequestStep("spawn")

\* flappy_bird_game.py lines 120-130: a loop thread of the object ticks and
\* calls the callback with the state
LoopPublishes(i) ==
    /\ games[i].live > 0 /\ games[i].is_running
    /\ ~games[i].published
    /\ games' = [games EXCEPT ![i].published = TRUE]
    /\ UNCHANGED <<game, requests, calls>>
    /\ RequestStep("publish")

\* flappy_bird_game.py line 120: a loop thread of the object finds is_running
\* cleared and ends
LoopEnds(i) ==
    /\ games[i].live > 0 /\ ~games[i].is_running
    /\ games' = [games EXCEPT ![i].live = @ - 1]
    /\ UNCHANGED <<game, requests, calls>>
    /\ RequestStep("end")

StartNext ==
    \/ \E r \in Requests : Begin(r)
    \/ \E r \in Requests : CheckGame(r)
    \/ \E r \in Requests : StopFlag(r)
    \/ \E r \in Requests : Join(r)
    \/ \E r \in Requests : CreateGame(r)
    \/ \E r \in Requests : StartTest(r)
    \/ \E r \in Requests : SpawnLoop(r)
    \/ \E i \in 1..Len(games) : LoopPublishes(i)
    \/ \E i \in 1..Len(games) : LoopEnds(i)

SpecStart == Init /\ [][StartNext]_vars

----------------------------------------------------------------------------
(* A detector that is recalibrated on demand (server.py lines 173, 238)    *)
(* while it is listening, in a room that is equally quiet every time.      *)
(* recalibrate runs on a thread of the server and _audio_callback on the   *)
(* thread of the audio stream; the detector has no lock, so the frame that *)
(* completes the buffer is followed in two steps: _auto_calibrate copies   *)
(* the buffer (line 118), and it writes the profile and is_calibrated      *)
(* (lines 126-160).                                                        *)

RoomVolumes == {50}

CalibrationDue ==
    /\ ~is_calibrated
    /\ Len_(calibration_samples) + 1 >= CALIBRATION_SIZE

\* lines 108-118: the sample is appended and the buffer is copied
CalibrateRead ==
    /\ volumes = <<>>
    /\ CalibrationDue
    /\ \E volume \in RoomVolumes :
           LET samples == [calibration_samples EXCEPT ![volume] = @ + 1]
           IN  /\ calibration_samples' = samples
               /\ smoothed_volume' = volume
               /\ volumes' = <<samples>>
    /\ UNCHANGED <<sensitivity, breathing_state, last_state_change,
                   baseline_volume, inhale_threshold, exhale_threshold,
                   is_calibrated, events>>
    /\ Op("copy")
    /\ UNCHANGED <<now, calls, last_input>>
    /\ UNCHANGED <<gameVars, threadVars, lockVars, audioVars, serverVars, filtered_volume>>

\* lines 120-160: the profile of the copy is written
CalibrateWrite ==
    /\ volumes # <<>>
    /\ auto_calibrate(volumes[1])
    /\ volumes' = <<>>
    /\ UNCHANGED <<sensitivity, breathing_state, last_state_change,
                   calibration_samples, smoothed_volume, events>>
    /\ Op("calibrated")
    /\ UNCHANGED <<now, calls, last_input>>
    /\ UNCHANGED <<gameVars, threadVars, lockVars, audioVars, serverVars, filtered_volume>>

RecalFrame ==
    /\ volumes = <<>>
    /\ ~CalibrationDue
    /\ \E volume \in (IF is_calibrated THEN FrameVolumes ELSE RoomVolumes) :
           audio_callback(volume)
    /\ Op("frame")
    /\ UNCHANGED <<now, calls, last_input>>
    /\ UNCHANGED <<gameVars, threadVars, lockVars, volumes, audioVars, serverVars, filtered_volume>>

RecalNext ==
    \/ RecalFrame
    \/ CalibrateRead
    \/ CalibrateWrite
    \/ AdvanceTime
    \/ Recalibrate

SpecRecal == Init /\ [][RecalNext]_vars

----------------------------------------------------------------------------
(* The frames of a detector that is recalibrated while it is listening,    *)
(* in a room that is equally quiet every time.  _audio_callback runs on    *)
(* the thread of the audio stream and recalibrate on a thread of the       *)
(* server, without a lock: a frame that finds is_calibrated set (line 90)  *)
(* is followed in two steps, the read of the flag and _detect_breathing.   *)

\* lines 64-93: the frame is smoothed and is_calibrated is read; the frame
\* of an uncalibrated detector goes to _collect_calibration_data
FrameBranch ==
    /\ filtered_volume = <<>>
    /\ \E volume \in (IF is_calibrated THEN FrameVolumes ELSE RoomVolumes) :
           /\ smoothed_volume' = volume
           /\ IF is_calibrated
              THEN /\ filtered_volume' = <<volume>>
                   /\ UNCHANGED <<sensitivity, breathing_state, last_state_change,
                                  baseline_volume, inhale_threshold,
                                  exhale_threshold, calibration_samples,
                                  is_calibrated, events>>
              ELSE /\ collect_calibration_data(volume)
                   /\ UNCHANGED filtered_volume
    /\ Op("frame")
    /\ UNCHANGED <<now, calls, last_input>>
    /\ UNCHANGED <<gameVars, threadVars, lockVars, volumes, audioVars, serverVars>>

\* line 91: _detect_breathing with the volume of the frame
Classify ==
    /\ filtered_volume # <<>>
    /\ detect_breathing(filtered_volume[1])
    /\ filtered_volume' = <<>>
    /\ UNCHANGED smoothed_volume
    /\ Op("classify")
    /\ UNCHANGED <<now, calls, last_input>>
    /\ UNCHANGED <<gameVars, threadVars, lockVars, volumes, audioVars, serverVars>>

ClassifyNext ==
    \/ FrameBranch
    \/ Classify
    \/ AdvanceTime
    \/ Recalibrate

SpecClassify == Init /\ [][ClassifyNext]_vars

----------------------------------------------------------------------------
(* Properties of the game *)

\* a step in which the loop ran _update_game
UpdateStep == last_op' = "tick" /\ ~is_paused /\ ~game_over

\* a step in which the server's handler handed an event to the game, or
\* dropped it
BreathingStep(t) ==
    /\ last_op' = t
    /\ \/ pending_breath = t /\ pending_breath' = "none"
       \/ calls' = calls + 1 /\ pending_breath' = pending_breath
       \/ last_input' # last_input

\* C3: in every state, after every tick and after every breathing input, the
\* body's velocity lies in [-MAX_VELOCITY, MAX_VELOCITY] and its y lies in
\* [radius, GAME_HEIGHT - radius].
C3_BodyInBounds ==
    /\ -MAX_VELOCITY <= bird.velocity_y /\ bird.velocity_y <= MAX_VELOCITY
    /\ bird.radius <= bird.y /\ bird.y <= GAME_HEIGHT - bird.radius

\* the velocity limit has cut a falling body's velocity that an impulse had
\* changed before
C3_Witness ==
    /\ last_op = "tick" /\ last_input >= 0 /\ ~game_over
    /\ bird.velocity_y = MAX_VELOCITY
    /\ bird.y > GAME_HEIGHT - bird.radius - MAX_VELOCITY

\* C4: outside of start and reset the score never decreases; a tick adds
\* exactly the number of pipes not yet passed whose right edge, once moved, is
\* left of the body's x (a pipe discarded in the same tick included); and the
\* passed flag of every pipe says exactly that its right edge is left of the
\* body's x, so that a pipe is counted at the first such tick and never again.
CrossingNow ==
    Cardinality({i \in 1..Len(pipes) :
        ~pipes[i].passed /\ pipes[i].x - PIPE_SPEED + PIPE_WIDTH < bird.x})

C4_ScoreStep ==
    /\ last_op' \notin {"start", "reset"} => score' >= score
    /\ UpdateStep => score' = score + CrossingNow
    /\ ~UpdateStep /\ last_op' \notin {"start", "reset"} => score' = score
    /\ \A i \in 1..Len(pipes') :
          pipes'[i].passed <=> pipes'[i].x + PIPE_WIDTH < bird'.x

C4_ScoredOnce == [][C4_ScoreStep]_vars

\* the first pipe was counted and has since been discarded
C4_Witness ==
    score = 1 /\ Len(pipes) = 2 /\ pipes[1].x < GAME_WIDTH /\ ~pipes[1].passed

\* C5 as claimed: a tick sets game_over exactly when the body is outside the
\* gap of a pipe it is aligned with, or the body is on the bottom boundary.
C5_GameOverStep ==
    UpdateStep =>
        (game_over' <=> (\/ Collides(bird', pipes')
                         \/ bird'.y = GAME_HEIGHT - bird'.radius))

C5_GameOverIff == [][C5_GameOverStep]_vars

\* C6 as claimed: a breathing event handed to on_breathing_input while the
\* game is paused, over, not yet started or stopped changes neither the
\* velocity nor the breathing label nor the active-impulse flag.
C6_IgnoredStep ==
    \A t \in BreathTypes :
        BreathingStep(t) /\ (~is_running \/ is_paused \/ game_over) =>
            /\ bird'.velocity_y = bird.velocity_y
            /\ current_breathing' = current_breathing
            /\ breathing_force_active' = breathing_force_active

C6_IgnoredUnlessRunning == [][C6_IgnoredStep]_vars

\* C7: an inhale on a running game never leaves the velocity below
\* BREATHING_FORCE, and leaves it at BREATHING_FORCE when the body was not
\* falling; an exhale never leaves it above EXHALE_FORCE; and the tick after
\* an inhale that left BREATHING_FORCE gives BREATHING_FORCE + GRAVITY
\* (-7.5 at the base gravity, after one inhale or after two).
Effective == is_running /\ ~is_paused /\ ~game_over

C7_ImpulseStep ==
    /\ BreathingStep("inhale") /\ Effective =>
          /\ bird'.velocity_y >= BREATHING_FORCE
          /\ bird.velocity_y <= 0 => bird'.velocity_y = BREATHING_FORCE
    /\ BreathingStep("exhale") /\ Effective =>
          /\ bird'.velocity_y <= EXHALE_FORCE
          /\ bird.velocity_y >= 0 => bird'.velocity_y = EXHALE_FORCE
    /\ last_op = "inhale" /\ prev_op = "inhale" /\ UpdateStep
         /\ GRAVITY = BASE_GRAVITY /\ bird.y = BIRD_Y =>
          bird'.velocity_y = BREATHING_FORCE + BASE_GRAVITY

C7_NoCompounding == [][C7_ImpulseStep]_vars

\* a second inhale in a row has acted on the body of a running game, and the
\* velocity is BREATHING_FORCE, not twice that
C7_Witness ==
    /\ last_op = "inhale" /\ prev_op = "inhale"
    /\ is_running /\ ~is_paused /\ ~game_over
    /\ breathing_force_active
    /\ bird.velocity_y = BREATHING_FORCE

\* C9: start_game on a running game changes no field of the game and starts
\* no thread.
C9_StartStep ==
    last_op' = "start" /\ is_running => UNCHANGED gameVars

C9_StartIdempotent == [][C9_StartStep]_vars

\* start was called on a running game after a tick had moved the body
C9_Witness ==
    /\ last_op = "start" /\ prev_op = "tick"
    /\ is_running /\ game_thread = 1 /\ bird.y # BIRD_Y


\* C16: a call of adjust_difficulty with multiplier m leaves PIPE_SPEED =
\* 3.0 * m and GRAVITY = 0.5 * m whatever the calls before it were, so the
\* multiplier 1.0 gives the defaults, and it changes no other field of the
\* game.
C16_AdjustStep ==
    last_op' = "adjust" =>
        /\ \E m \in DifficultyLevels :
               /\ PIPE_SPEED' = 3 * Scale * m
               /\ 2 * GRAVITY' = Scale * m
        /\ UNCHANGED <<bird, pipes, is_running, is_paused, score, high_score,
                       game_over, current_breathing, breathing_force_active,
                       breathing_force_timer, game_thread, loop_alive>>

C16_NoCompounding == [][C16_AdjustStep]_vars

\* three calls in a row have been made and the last one, with multiplier 2,
\* decides the values
C16_Witness ==
    /\ last_op = "adjust" /\ prev_op = "adjust"
    /\ calls = MaxCalls
    /\ PIPE_SPEED = 3 * Scale * 2
    /\ GRAVITY = Scale

\* C18 as claimed: reset_game leaves, from any state, a fresh body, fresh
\* pipes, score 0, game_over false, a game that is not paused, no active
\* impulse and the high score as it was; and the tick after it changes
\* neither the body nor the pipes nor the score, because the game waits for
\* start_game.
C18_ResetStep ==
    /\ last_op' = "reset" /\ calls' = calls + 1 =>
          /\ bird' = NewBird
          /\ \E g1 \in GapChoices, g2 \in GapChoices, g3 \in GapChoices :
                 pipes' = InitialPipes(g1, g2, g3)
          /\ score' = 0
          /\ ~game_over'
          /\ ~is_paused'
          /\ ~breathing_force_active'
          /\ high_score' = high_score
    /\ last_op = "reset" /\ last_op' = "tick" =>
          UNCHANGED <<bird, pipes, score>>

C18_ResetToIdle == [][C18_ResetStep]_vars

\* C19 as claimed: after a tick that leaves game_over true the high score is
\* at least the score, also when a pipe is scored in the tick that detects
\* the collision or the floor; and the high score never decreases.
C19_HighScoreStep ==
    /\ game_over' => high_score' >= score'
    /\ high_score' >= high_score

C19_HighScoreIsMax == [][C19_HighScoreStep]_vars

\* a thread is inside a block of the lock
InBlock(t) == pc[t].at = "in"

\* the step in which get_game_state returns
SnapshotStep ==
    \E t \in Threads : pc[t] = Inside("state") /\ pc'[t] = Out

\* C20: the tick body, on_breathing_input, reset_game, pause_game and
\* get_game_state are never inside the lock's blocks at the same time; the
\* thread that holds the lock is inside its block and can take its next
\* step, so that the lock is released and no thread waits for ever; and
\* get_game_state returns a copy of the state as it is between two ticks,
\* never in a tick of which a part has been applied.
C20_Serialized ==
    /\ \A t \in Threads, u \in Threads : InBlock(t) /\ InBlock(u) => t = u
    /\ \A t \in Threads : InBlock(t) <=> lock = t
    /\ lock # "free" =>
          ENABLED (BreathingBody \/ PauseBody \/ ResetBody \/ StateBody
                     \/ TickPhysics \/ TickPipes \/ TickCollisions \/ TickScore)

C20_SnapshotStep ==
    SnapshotStep =>
        /\ ~(InBlock("loop") /\ pc["loop"].op \in TickOps)
        /\ snapshot' = <<GameState>>

C20_LockExcludes == [](C20_Serialized) /\ [][C20_SnapshotStep]_vars

\* a client's get_game_state has returned the state after a tick, while the
\* loop thread waits for the lock for its own
C20_Witness ==
    /\ last_op = "state" /\ prev_op = "tick"
    /\ pc["control"] = Out /\ pc["loop"] = Waiting("state")
    /\ snapshot # <<>>
    /\ snapshot[1].bird = bird
    /\ bird.velocity_y > 0

----------------------------------------------------------------------------
(* Properties of the detector *)

\* C1 as claimed: once calibrated, the inhale threshold is above the baseline,
\* the baseline is above the exhale threshold, and the thresholds are at
\* least max(20, 0.4 * baseline) apart.
C1_ThresholdsSeparated ==
    is_calibrated =>
        /\ inhale_threshold > baseline_volume
        /\ baseline_volume > exhale_threshold
        /\ inhale_threshold - exhale_threshold
               >= Max(20 * 1000, (4 * baseline_volume) \div 10)

\* C2: breathing_state changes only when more than MIN_STATE_DURATION has
\* passed since last_state_change, which then becomes the time of the change
\* and changes at no other step; a frame inside the window changes neither.
C2_DebounceStep ==
    /\ breathing_state' # breathing_state =>
          /\ now - last_state_change > MIN_STATE_DURATION
          /\ last_state_change' = now
    /\ last_state_change' # last_state_change => breathing_state' # breathing_state
    /\ last_op' = "frame" /\ now - last_state_change <= MIN_STATE_DURATION =>
          UNCHANGED <<breathing_state, last_state_change>>

C2_Debounced == [][C2_DebounceStep]_vars

\* a frame below the exhale threshold came inside the window after a change
\* to inhale, and the state is still inhale
C2_Witness ==
    /\ last_op = "frame" /\ is_calibrated
    /\ breathing_state = "inhale"
    /\ smoothed_volume * Thousandths < exhale_threshold
    /\ 0 < now - last_state_change
    /\ now - last_state_change <= MIN_STATE_DURATION

\* C8: a step that changes breathing_state to inhale or exhale appends exactly
\* one call, of that type and with the frame's volume, to the callback's
\* calls; every other step leaves the calls as they are.
C8_CallbackStep ==
    IF breathing_state' # breathing_state /\ breathing_state' \in {"inhale", "exhale"}
    THEN events' = Append(events, [type |-> breathing_state',
                                   volume |-> smoothed_volume'])
    ELSE events' = events

C8_CallbackOnChange == [][C8_CallbackStep]_vars

\* a frame above the inhale threshold came long after the change to inhale,
\* and the callback has been called once
C8_Witness ==
    /\ last_op = "frame" /\ is_calibrated
    /\ breathing_state = "inhale"
    /\ smoothed_volume * Thousandths > inhale_threshold
    /\ now - last_state_change > MIN_STATE_DURATION
    /\ Len(events) = 1 /\ events[1].type = "inhale"

\* C12: the detector is calibrated exactly when its buffer, counted from
\* construction or from the last recalibrate, has reached CALIBRATION_SIZE
\* samples, whatever their values; and when fewer than MIN_VALID of them are
\* valid the profile is baseline 100, inhale threshold 150, exhale
\* threshold 50.
C12_CalibrationCompletes ==
    /\ is_calibrated <=> Len_(calibration_samples) >= CALIBRATION_SIZE
    /\ is_calibrated /\ Len_(ValidVolumes(calibration_samples)) < MIN_VALID =>
          /\ baseline_volume = 100 * 1000
          /\ inhale_threshold = 150 * 1000
          /\ exhale_threshold = 50 * 1000

\* after a recalibrate the hundredth sample has calibrated a buffer with
\* nine valid samples
C12_Witness ==
    /\ is_calibrated /\ calls > 0 /\ last_op = "sample"
    /\ calibration_samples[Invalid] = CALIBRATION_SIZE - MIN_VALID + 1
    /\ exhale_threshold = 50 * 1000

\* C13: set_sensitivity stores min(3.0, max(0.1, v)) for the v it is given,
\* so after a call the sensitivity lies in [0.1, 3.0].
C13_ClampStep ==
    last_op' = "sensitivity" =>
        /\ sensitivity' \in 1..30
        /\ \E v \in SensitivityInputs : sensitivity' = Min(30, Max(1, v))
        /\ sensitivity' # sensitivity =>
              \E v \in SensitivityInputs \ {sensitivity} :
                  sensitivity' = Min(30, Max(1, v))

C13_Clamped == [][C13_ClampStep]_vars

\* a call below the range and a call above it have both been stored
C13_Witness ==
    /\ last_op = "sensitivity"
    /\ sensitivity = 1
    /\ is_calibrated

\* C14: on a calibrated detector set_sensitivity keeps is_calibrated, the
\* buffer and the baseline, and leaves the thresholds that _auto_calibrate
\* yields for the buffer with the new sensitivity, so that the thresholds are
\* a function of the buffer and the sensitivity and setting the sensitivity
\* back restores them; on an uncalibrated detector only the sensitivity
\* changes.
C14_SensitivityStep ==
    last_op' = "sensitivity" =>
        /\ UNCHANGED <<is_calibrated, calibration_samples, baseline_volume,
                       breathing_state, last_state_change, smoothed_volume,
                       events>>
        /\ IF is_calibrated
           THEN LET p == Profile(ValidVolumes(calibration_samples), sensitivity')
                IN  /\ inhale_threshold' = p.inhale
                    /\ exhale_threshold' = p.exhale
           ELSE UNCHANGED <<inhale_threshold, exhale_threshold>>

C15_RecalibrateStep ==
    /\ last_op' = "recalibrate" =>
          /\ Len_(calibration_samples') = 0
          /\ ~is_calibrated'
          /\ baseline_volume' = 0
          /\ inhale_threshold' = 0
          /\ exhale_threshold' = 0
          /\ UNCHANGED <<breathing_state, last_state_change>>
    /\ is_calibrated' /\ ~is_calibrated =>
          Len_(calibration_samples') >= CALIBRATION_SIZE
    /\ Len_(calibration_samples') <= Len_(calibration_samples) + 1

C15_Restarts == [][C15_RecalibrateStep]_vars

\* C17 as claimed: once pause_game has returned with is_paused true, no tick
\* of the loop thread changes the body, the pipes or the score until the
\* game is resumed; and pause_game toggles is_paused and nothing else.
C17_PausedStep ==
    /\ is_paused /\ loop_pc = "update" /\ loop_pc' = "publish" =>
          UNCHANGED <<bird, pipes, score>>
    /\ last_op' = "pause" /\ calls' = calls + 1 =>
          /\ is_paused' = ~is_paused
          /\ UNCHANGED <<bird, pipes, score, high_score, game_over,
                         is_running>>

C17_FrozenWhilePaused == [][C17_PausedStep]_vars

\* C21 as claimed: under every interleaving of the audio callback with
\* recalibrate, a calibrated detector holds a buffer that is not cleared,
\* thresholds that are not zero, and an inhale threshold above the baseline
\* above the exhale threshold.
C21_ProfileProtected ==
    is_calibrated =>
        /\ Len_(calibration_samples) > 0
        /\ inhale_threshold # 0 /\ exhale_threshold # 0
        /\ inhale_threshold > baseline_volume
        /\ baseline_volume > exhale_threshold

----------------------------------------------------------------------------
(* Properties of the audio device *)

\* the detector of the session could not acquire the device
DeviceFailed == detector = "some" /\ ~det_running /\ audio = "ready"

\* C22: a request to start a game whose detector cannot acquire the device
\* leaves the detector not running and the game started; as long as the
\* session lasts the game ticks and no breathing event reaches
\* on_breathing_input.
C22_FailureStep ==
    /\ last_op' = "start_game" /\ calls' = calls + 1 /\ DeviceFailed' =>
          is_running' /\ loop_alive' /\ ~det_running'
    /\ DeviceFailed /\ calls' = calls + 1 => last_op' \notin BreathTypes
    /\ DeviceFailed /\ ~game_over /\ last_op' = "tick" =>
          bird'.velocity_y = VelocityAfterGravity(bird, GRAVITY) \/ bird'.velocity_y = 0

NoRepeat(log) == \A i \in 1..Len(log), j \in 1..Len(log) : log[i] = log[j] => i = j

\* C23 as claimed: a detector is torn down by stop, close and terminate in
\* this order, and a second stop_audio_stream on it makes none of the three
\* calls again.
C23_TeardownOnce ==
    /\ NoRepeat(audio_log)
    /\ audio_log \in {<<>>, <<"terminate">>, <<"stop", "close", "terminate">>}

----------------------------------------------------------------------------
(* Properties of the threads *)

\* C10: once is_running is false the loop thread begins no iteration: at its
\* loop test it ends, and it ends nowhere else, so that an iteration in
\* flight runs to its end; a loop thread whose flag is false ends; and a
\* stop_game that waits in join returns, no later than JOIN_TIMEOUT after it
\* was called.
C10_LoopStep ==
    /\ loop_pc = "test" /\ ~is_running => loop_pc' \in {"test", "done"}
    /\ loop_pc # "done" /\ loop_pc' = "done" => loop_pc = "test" /\ ~is_running
    /\ loop_pc \in {"frame", "update", "publish"} /\ loop_pc' # loop_pc =>
          loop_pc' \in {"update", "publish", "sleep"}

C10_StopTerminates ==
    /\ [][C10_LoopStep]_vars
    /\ [](stop_pc = "join" => now <= join_deadline)
    /\ (~is_running /\ loop_alive) ~> ~loop_alive
    /\ (stop_pc = "join") ~> (stop_pc = "idle")

\* stop_game has set the flag and waits in join, and the loop thread has just
\* completed the _update_game that was in flight
C10_Witness ==
    /\ last_op = "update" /\ prev_op = "stop"
    /\ ~is_running /\ stop_pc = "join"
    /\ loop_pc = "publish"

\* C24: _update_game runs only in an iteration whose clock reading is at
\* least one frame time after the reading of the iteration before it that
\* was due, and that iteration leaves its own reading as the new reference:
\* however long the loop was stalled, the time that has passed is paid with
\* one update, and the iteration after it is not due.
C24_SkipStep ==
    /\ loop_pc = "update" /\ loop_pc' = "publish" =>
          /\ current_time - last_time >= FRAME_TIME
          /\ current_time <= now
    /\ loop_pc = "publish" /\ loop_pc' = "sleep" => last_time' = current_time
    /\ loop_pc = "frame" /\ loop_pc' = "update" => last_time + FRAME_TIME <= now
    /\ loop_pc = "frame" /\ now = last_time => loop_pc' \in {"frame", "sleep"}

C24_TicksSkipped == [][C24_SkipStep]_vars

\* the callback stalled for sixty frame times, one update followed, and the
\* next iteration finds that no frame is due
C24_Witness ==
    /\ now >= JOIN_TIMEOUT
    /\ loop_pc = "sleep" /\ last_op = "frame"
    /\ last_time = now
    /\ is_running /\ ~is_paused /\ ~game_over
    /\ bird.velocity_y = 2 * GRAVITY

\* C11 as claimed: a fault inside a tick does not end the loop: the loop
\* thread ends only when stop_game has cleared is_running, and after a fault
\* the loop goes on to its sleep and its next iteration.
C11_FaultStep ==
    /\ loop_pc # "done" /\ loop_pc' = "done" => ~is_running
    /\ last_op' = "fault" /\ last_op # "fault" => loop_pc' = "sleep"

C11_FaultsCaught == [][C11_FaultStep]_vars

----------------------------------------------------------------------------
(* Properties of the pipe track *)

\* the pipes of a track in ascending order, neighbours at least
\* PIPE_SPAWN_DISTANCE apart
Spaced(ps) ==
    \A i \in 1..Len(ps) - 1 : ps[i + 1].x - ps[i].x >= PIPE_SPAWN_DISTANCE

\* the indices of the pipes that are still on the screen after the move
OnScreenAfter(ps, speed) ==
    {i \in 1..Len(ps) : ps[i].x - speed + PIPE_WIDTH >= 0}

\* one call of _update_pipes: the pipes that are discarded are the first
\* ones, namely those whose right edge is left of the screen after the move,
\* and a pipe is appended at GAME_WIDTH exactly when no pipe is kept or the
\* last kept pipe is left of GAME_WIDTH - PIPE_SPAWN_DISTANCE
C25_TrackStep ==
    last_op' = "pipes" =>
        LET kept == OnScreenAfter(pipes, PIPE_SPEED)
            gone == Len(pipes) - Cardinality(kept)
            due  == \/ kept = {}
                    \/ pipes[Len(pipes)].x - PIPE_SPEED
                           < GAME_WIDTH - PIPE_SPAWN_DISTANCE
        IN  /\ kept = gone + 1 .. Len(pipes)
            /\ Len(pipes') = Cardinality(kept) + (IF due THEN 1 ELSE 0)
            /\ \A i \in kept : pipes'[i - gone].x = pipes[i].x - PIPE_SPEED
            /\ due => pipes'[Len(pipes')].x = GAME_WIDTH

\* the first pipe of a session at the base speed is on the track for 283
\* ticks and is gone at tick 284
C25_FirstPipe ==
    is_running /\ PIPE_SPEED = BASE_PIPE_SPEED =>
        /\ now <= 283 => pipes[1].x = GAME_WIDTH - now * BASE_PIPE_SPEED
        /\ now = 284 => pipes[1].x
                           = GAME_WIDTH + PIPE_SPAWN_DISTANCE - now * BASE_PIPE_SPEED

\* C25: after a reset the pipe list is never empty and is in strictly
\* ascending order with neighbours at least 300 apart; a pipe is discarded
\* at the first tick at which x + width < 0 (tick 284 for a pipe that started
\* at 800 with speed 3), and a pipe is spawned at GAME_WIDTH only when the
\* last pipe is left of GAME_WIDTH - PIPE_SPAWN_DISTANCE.
C25_PipeTrack ==
    /\ [](is_running => pipes # <<>> /\ Spaced(pipes))
    /\ []C25_FirstPipe
    /\ [][C25_TrackStep]_vars

\* the first pipe has just been discarded at tick 284, and later the pipe
\* after the third one has been spawned
C25_Witness ==
    /\ PIPE_SPEED = BASE_PIPE_SPEED
    /\ now > 284
    /\ Len(pipes) = 3
    /\ pipes[3].x = GAME_WIDTH
    /\ pipes[3].x - pipes[2].x > PIPE_SPAWN_DISTANCE

----------------------------------------------------------------------------
(* Properties of the fall *)

\* the session runs at the default gravity and has had no breathing input
FreeFall == is_running /\ GRAVITY = BASE_GRAVITY /\ last_input = -1

\* C26 as claimed: with gravity 0.5 per tick, no breathing input and the
\* velocity 0 after the reset, the velocity is 0.5 * n after n ticks for
\* n <= 20, is MAX_VELOCITY at tick 20, and stays MAX_VELOCITY on every
\* later tick of the session.
C26_FallVelocity ==
    FreeFall => bird.velocity_y = Min(now * BASE_GRAVITY, MAX_VELOCITY)

\* a breathing event reaches a game that is running
ImpulseStep(t) ==
    last_op' = t /\ is_running /\ ~game_over /\ ~is_paused

\* C27 as claimed: an impulse acts in its own direction: in a running game
\* an inhale never increases the velocity and an exhale never decreases it,
\* also when the body falls faster than EXHALE_FORCE.
C27_DirectionStep ==
    /\ ImpulseStep("inhale") => bird'.velocity_y <= bird.velocity_y
    /\ ImpulseStep("exhale") => bird'.velocity_y >= bird.velocity_y

C27_OwnDirection == [][C27_DirectionStep]_vars

----------------------------------------------------------------------------
(* Properties of the displayed label *)

\* C28 as claimed: in every state reached by start, reset, pause, ticks and
\* inhale and exhale inputs, the displayed breathing label is neutral
\* whenever no impulse is active.
C28_LabelFollowsFlag ==
    ~breathing_force_active => current_breathing = "neutral"

----------------------------------------------------------------------------
(* Properties of the server's requests *)

\* the live loop threads that tick and publish: those of the objects that
\* are running and have called the callback
Publishing(i) == IF games[i].is_running /\ games[i].published
                 THEN games[i].live ELSE 0

\* C29 as claimed: for any sequence and interleaving of start and stop
\* requests there is never a state with two live game-loop threads ticking
\* or publishing game state.
C29_OneLoopThread ==
    /\ \A i \in 1..Len(games) : Publishing(i) <= 1
    /\ \A i, j \in 1..Len(games) :
           Publishing(i) > 0 /\ Publishing(j) > 0 => i = j

----------------------------------------------------------------------------
(* Properties of the frames *)

\* C30 as claimed: a frame goes to the calibration while is_calibrated is
\* false and to the classifier once it is true, never to both, so that no
\* breathing event is emitted while the detector is uncalibrated or from
\* zeroed thresholds, also when recalibrate is called while a callback is in
\* progress.
C30_RoutingStep ==
    /\ events' # events =>
           /\ is_calibrated
           /\ inhale_threshold > 0
           /\ calibration_samples' = calibration_samples
    /\ calibration_samples' # calibration_samples /\ last_op' # "recalibrate" =>
           /\ ~is_calibrated
           /\ events' = events

C30_FrameRouting == [][C30_RoutingStep]_vars

====
